---- MODULE Spec2Model ----
(***************************************************************************)
(* Reservation dashboard (src/unnamed/part_001, the current dashboard      *)
(* script; src/unnamed/part_000, an earlier revision of the same script)   *)
(* and table console (src/static/admin.js).                                *)
(*                                                                         *)
(* The specifications:                                                     *)
(*   SpecDerive, SpecBucket, the pure display derivations of one table     *)
(*   SpecClock               (getNextReservation, computeCardColor,        *)
(*                           renderFloors' card, renderReservationList)    *)
(*                           applied to bounded inputs;                    *)
(*   SpecDefault             setDefaultReservationTime at bounded clock    *)
(*                           readings;                                     *)
(*   Spec                    the event-driven client: snapshot fetches,    *)
(*                           mutating requests, the 60 s poll, the modal;  *)
(*   SpecForm                the dashboard with its reservation form in    *)
(*                           use, and the table deleted by another client. *)
(*                                                                         *)
(* Instants are integers in milliseconds (Date#getTime) relative to an     *)
(* arbitrary origin; a start_time is either such an instant (the text of a *)
(* parsable timestamp) or a text that Date cannot parse.                   *)
(***************************************************************************)
EXTENDS Integers, Sequences, FiniteSets, Bags, TLC

VARIABLES
    reservations,   \* derivations: table.reservations of the table under render
    now,            \* derivations: the clock read by the render pass (new Date())
    card,           \* derivations: card built by renderFloors of part_001
    card0,          \* derivations: card built by renderFloors of part_000
    items,          \* derivations: items appended by renderReservationList, part_001
    items0,         \* derivations: items appended by renderReservationList, part_000
    elapsed,        \* derivations: milliseconds between the clock reading of
                    \* computeCardColor and the later Date.now() of renderFloors
    suggestion,     \* derivations: input.value set by setDefaultReservationTime,
                    \* part_001
    suggestion0,    \* derivations: the same of part_000
    page,           \* the page loaded: "dashboard" (part_001) or "admin" (admin.js)
    server,         \* the backend's table and reservation
    net,            \* bag of the requests in flight, each with its response
    appState,       \* part_001: appState, the snapshot in appState.tables
    floors,         \* part_001: the cards in floorsContainer
    modal,          \* part_001: currentTableId (0 for null), the form's
                    \* dataset.mode, reservation_id (0 for '') and fields,
                    \* formPristine and the items in reservationList
    resume,         \* part_001: the submit handler is to continue after its
                    \* awaited fetchTables
    adminState,     \* admin.js: adminState, the snapshot in adminState.tables
    tableList,      \* admin.js: the rows in tableList
    statusText,     \* admin.js: the message in statusText
    alertText       \* both pages: the message of the alert() dialog the last
                    \* step raised, "" when it raised none

vars == <<reservations, now, card, card0, items, items0, elapsed, suggestion,
          suggestion0, page, server, net,
          appState, floors, modal, resume, adminState, tableList, statusText,
          alertText>>

----------------------------------------------------------------------------
(* JavaScript values *)

\* null and undefined (both falsy); a record, as every object of the model is
null == [isNull |-> TRUE]
Unset == [unset |-> TRUE]
\* A list element that has not been rendered
NoItems == <<Unset>>

\* A Number: NaN, or an integer.
NaN == [nan |-> TRUE, v |-> 0]
Num(n) == [nan |-> FALSE, v |-> n]

\* Number.isNaN
IsNaN(x) == x.nan

\* The text of a timestamp: one that Date parses to the instant ms, or one that
\* Date cannot parse.
TimeText(ms) == [ok |-> TRUE, ms |-> ms]
BadTimeText == [ok |-> FALSE, ms |-> 0]

\* new Date(value).getTime(): the instant a parsable text denotes, NaN otherwise.
DateGetTime(value) == IF value.ok THEN Num(value.ms) ELSE NaN

\* a - b on numbers (Date operands are converted by valueOf): NaN is contagious.
Minus(a, b) == IF IsNaN(a) \/ IsNaN(b) THEN NaN ELSE Num(a.v - b.v)

\* a >= b on numbers: false when either is NaN.
Geq(a, b) == ~IsNaN(a) /\ ~IsNaN(b) /\ a.v >= b.v

\* Math.round on the quotient num / den, den > 0: nearest integer, ties towards
\* +infinity, i.e. floor(num/den + 1/2).
MathRoundDiv(num, den) == (2 * num + den) \div (2 * den)

\* The elements of an array
Range(arr) == {arr[i] : i \in 1..Len(arr)}

\* Array.prototype.sort(comparefn): a stable sort; a NaN from comparefn counts
\* as +0.  comparefn is given as a function on the pairs of elements.  Computed
\* as a linear insertion sort, which is the order every stable sort yields for
\* a consistent comparator, and the order the engines' insertion and merge
\* passes yield on the short arrays considered here when the comparator is not
\* consistent (NaN against two different instants).
\* Mutant: an insertion that also passes the elements that compare equal
ArraySort_unstable(arr, comparefn) ==
    LET Cmp(x, y) == LET v == comparefn[<<x, y>>] IN IF IsNaN(v) THEN 0 ELSE v.v
        ins[k \in 0..Len(arr)] ==
            IF k = 0 THEN <<>>
            ELSE LET prev == ins[k - 1]
                     x == arr[k]
                     p == CHOOSE q \in 0..Len(prev) :
                            /\ \A j \in (q + 1)..Len(prev) : Cmp(prev[j], x) >= 0
                            /\ (q = 0 \/ Cmp(prev[q], x) < 0)
                 IN SubSeq(prev, 1, p) \o <<x>> \o SubSeq(prev, p + 1, Len(prev))
    IN ins[Len(arr)]

ArraySort(arr, comparefn) ==
    LET Cmp(x, y) == LET v == comparefn[<<x, y>>] IN IF IsNaN(v) THEN 0 ELSE v.v
        ins[k \in 0..Len(arr)] ==
            IF k = 0 THEN <<>>
            ELSE LET prev == ins[k - 1]
                     x == arr[k]
                     p == CHOOSE q \in 0..Len(prev) :
                            /\ \A j \in (q + 1)..Len(prev) : Cmp(prev[j], x) > 0
                            /\ (q = 0 \/ Cmp(prev[q], x) <= 0)
                 IN SubSeq(prev, 1, p) \o <<x>> \o SubSeq(prev, p + 1, Len(prev))
    IN ins[Len(arr)]

\* Array.prototype.find: the first element among those satisfying the
\* predicate (given as the set of the elements that satisfy it), else undefined
\* (falsy; modelled by null).
Find(arr, satisfying) ==
    IF \E i \in 1..Len(arr) : arr[i] \in satisfying
    THEN arr[CHOOSE i \in 1..Len(arr) :
                 arr[i] \in satisfying /\ \A j \in 1..(i - 1) : arr[j] \notin satisfying]
    ELSE null

----------------------------------------------------------------------------
(* Colours returned by computeCardColor *)

\* A CSS colour text: a literal, or the template `hsl(${hue}, S%, L%)` of
\* part_000, whose hue is 120 * clamp / dayMs degrees (clamp in 0..dayMs).
Css(text) == [text |-> text, clamp |-> 0]
Hsl(clamp, sl) == [text |-> sl, clamp |-> clamp]

OverdueColor  == [background |-> Css("#f3e5f5"), border |-> Css("#8e24aa")]
ImminentColor == [background |-> Css("#ffebee"), border |-> Css("#d32f2f")]
NearColor     == [background |-> Css("#ffe5e5"), border |-> Css("#ef5350")]
SoonColor     == [background |-> Css("#fff8e1"), border |-> Css("#f9a825")]
TodayColor    == [background |-> Css("#e8f5e9"), border |-> Css("#4caf50")]

minuteMs == 60000
dayMs == 24 * 60 * 60 * 1000

\* The text of a card without a next reservation ('暂无预定').
NoReservationText == "zan wu yu ding"

Max(a, b) == IF a >= b THEN a ELSE b
Min(a, b) == IF a <= b THEN a ELSE b

----------------------------------------------------------------------------
(* part_001: the current dashboard script *)

\* { ...res, start: new Date(res.start_time) }, the Date kept as its getTime()
WithStart(res) ==
    [id |-> res.id, status |-> res.status, start_time |-> res.start_time,
     start |-> DateGetTime(res.start_time)]

\* Mutant: an arrived reservation still counts as active
IsActive_orArrived(res) == res.status \in {"active", "arrived"}

IsActive(res) == res.status = "active"
HasValidStart(res) == ~IsNaN(res.start)

\* (a, b) => a.start - b.start, on the elements of arr
ByStart(arr) == [p \in Range(arr) \X Range(arr) |-> Minus(p[1].start, p[2].start)]

\* .filter(active).map(start).filter(valid), before the sort
ActiveWithDates(rs) ==
    LET active == SelectSeq(rs, IsActive)
        mapped == [i \in 1..Len(active) |-> WithStart(active[i])]
    IN SelectSeq(mapped, HasValidStart)

\* filter(active).map(start).filter(valid).sort(by start): shared by
\* computeCardColor and getNextReservation
\* Mutant: the sort left out
ActiveByStart_unsorted(rs) == ActiveWithDates(rs)

ActiveByStart(rs) == ArraySort(ActiveWithDates(rs), ByStart(ActiveWithDates(rs)))

\* Mutant: the imminent bucket ends before 10 minutes
computeCardColor_strictTen(rs, t) ==
    LET activeReservations == SelectSeq(rs, IsActive)
        withDates == ActiveByStart(rs)
    IN IF Len(activeReservations) = 0 THEN null
       ELSE IF Len(withDates) = 0 THEN null
       ELSE LET next == withDates[1]
                diffMinutes == MathRoundDiv(next.start.v - t, minuteMs)
            IN IF diffMinutes < 0 THEN OverdueColor
               ELSE IF diffMinutes < 10 THEN ImminentColor
               ELSE IF diffMinutes <= 30 THEN NearColor
               ELSE IF diffMinutes <= 180 THEN SoonColor
               ELSE IF diffMinutes <= 1440 THEN TodayColor
               ELSE null

\* Mutant: the colour taken from the first reservation that has not started,
\* the pick of getNextReservation
computeCardColor_fromNext(rs, t) ==
    LET withDates == ActiveByStart(rs)
        future == SelectSeq(withDates, LAMBDA res : Geq(res.start, Num(t)))
    IN IF Len(withDates) = 0 THEN null
       ELSE LET next == IF Len(future) > 0 THEN future[1] ELSE withDates[1]
                diffMinutes == MathRoundDiv(next.start.v - t, minuteMs)
            IN IF diffMinutes < 0 THEN OverdueColor
               ELSE IF diffMinutes <= 10 THEN ImminentColor
               ELSE IF diffMinutes <= 30 THEN NearColor
               ELSE IF diffMinutes <= 180 THEN SoonColor
               ELSE IF diffMinutes <= 1440 THEN TodayColor
               ELSE null

computeCardColor(rs, t) ==
    LET activeReservations == SelectSeq(rs, IsActive)
        withDates == ActiveByStart(rs)
    IN IF Len(activeReservations) = 0 THEN null
       ELSE IF Len(withDates) = 0 THEN null
       ELSE LET next == withDates[1]
                diffMinutes == MathRoundDiv(next.start.v - t, minuteMs)
            IN IF diffMinutes < 0 THEN OverdueColor
               ELSE IF diffMinutes <= 10 THEN ImminentColor
               ELSE IF diffMinutes <= 30 THEN NearColor
               ELSE IF diffMinutes <= 180 THEN SoonColor
               ELSE IF diffMinutes <= 1440 THEN TodayColor
               ELSE null

\* Mutant: the selector without the status filter
getNextReservation_anyStatus(rs, t) ==
    LET mapped == SelectSeq([i \in 1..Len(rs) |-> WithStart(rs[i])], HasValidStart)
        active == ArraySort(mapped, ByStart(mapped))
        next == Find(active, {res \in Range(active) : Geq(res.start, Num(t))})
    IN IF Len(active) = 0 THEN null
       ELSE IF next # null THEN next ELSE active[1]

\* Mutant: the selector without the search for a start >= now
getNextReservation_earliest(rs, t) ==
    LET active == ActiveByStart(rs)
    IN IF Len(active) = 0 THEN null ELSE active[1]

getNextReservation(rs, t) ==
    LET active == ActiveByStart(rs)
        next == Find(active, {res \in Range(active) : Geq(res.start, Num(t))})
    IN IF Len(active) = 0 THEN null
       ELSE IF next # null THEN next ELSE active[1]

\* timeDiffText of part_001, for a start_time that parsed
timeDiffText(startTime, t) ==
    LET start == DateGetTime(startTime)
    IN IF IsNaN(start) THEN [text |-> "", n |-> 0]
       ELSE LET diffMinutes == MathRoundDiv(start.v - t, minuteMs)
            IN IF diffMinutes >= 60
               THEN [text |-> "hours left", n |-> MathRoundDiv(diffMinutes, 60)]
               ELSE IF diffMinutes > 0
               THEN [text |-> "minutes left", n |-> diffMinutes]
               ELSE [text |-> "overtime", n |-> 0]

\* The card renderFloors builds for one table: its colours, the reservation
\* shown as next, the text of the next-reservation line and the 'overdue' class.
\* t is the clock as computeCardColor and getNextReservation read it, td the
\* clock as Date.now() and timeDiffText read it further down.
renderFloors(rs, t, td) ==
    LET colorMeta == computeCardColor(rs, t)
        upcoming == getNextReservation(rs, t)
    IN [background |-> IF colorMeta # null THEN colorMeta.background ELSE Css("white"),
        borderColor |-> IF colorMeta # null THEN colorMeta.border
                        ELSE Css("var(--border-color)"),
        colorMeta |-> colorMeta,
        upcoming |-> upcoming,
        next |-> IF upcoming # null
                 THEN timeDiffText(upcoming.start_time, td).text
                 ELSE NoReservationText,
        overdue |-> IF upcoming # null
                    THEN MathRoundDiv(DateGetTime(upcoming.start_time).v - td, minuteMs) < 0
                    ELSE FALSE]

IsOther(res) == res.status # "active"
ByStartTimeAsc(arr) ==
    [p \in Range(arr) \X Range(arr) |->
        Minus(DateGetTime(p[1].start_time), DateGetTime(p[2].start_time))]
ByStartTimeDesc(arr) ==
    [p \in Range(arr) \X Range(arr) |->
        Minus(DateGetTime(p[2].start_time), DateGetTime(p[1].start_time))]

\* const ordered = [...active.sort(asc), ...others.sort(desc)]; the two arrays
\* are the copies filter made, so table.reservations itself is not reordered.
orderedReservations(rs) ==
    LET active == SelectSeq(rs, IsActive)
        others == SelectSeq(rs, IsOther)
    IN ArraySort(active, ByStartTimeAsc(active))
           \o ArraySort(others, ByStartTimeDesc(others))

\* start.getTime() <= now.getTime(): false for an unparsable start_time
StartedBy(res, t) ==
    LET start == DateGetTime(res.start_time) IN ~IsNaN(start) /\ start.v <= t

\* The items renderReservationList appends, in order: an 'arrived' reservation
\* returns from the callback before anything is appended.
renderReservationList(rs, t) ==
    LET Shown(res) == res.status # "arrived"
        Item(res) ==
            [id |-> res.id, status |-> res.status, start_time |-> res.start_time,
             overdue |-> res.status = "active" /\ StartedBy(res, t),
             actions |-> IF res.status = "active"
                         THEN <<"edit", "arrive", "cancel">>
                         ELSE <<"status-chip">>]
        shown == SelectSeq(orderedReservations(rs), Shown)
    IN [i \in 1..Len(shown) |-> Item(shown[i])]

----------------------------------------------------------------------------
(* Local time and the text of a datetime-local input *)

hourMs == 60 * minuteMs

\* The local wall clock at the instant t.  The origin of the instants is a
\* local midnight, and the zone's offset does not change.
GetDate(t) == t \div dayMs
GetHours(t) == (t % dayMs) \div hourMs
GetMinutes(t) == (t % hourMs) \div minuteMs

\* The text "YYYY-MM-DDTHH:MM" (date as a day number), the empty text, a text
\* without 'T', and a text whose minute segment is not a number
DateTimeLocal(date, hour, minute) ==
    [kind |-> "datetime", date |-> date, hour |-> hour, minute |-> minute]
EmptyText == [kind |-> "empty", date |-> 0, hour |-> 0, minute |-> 0]
DateOnlyText(date) == [kind |-> "date", date |-> date, hour |-> 0, minute |-> 0]
BadMinuteText(date, hour) ==
    [kind |-> "bad minute", date |-> date, hour |-> hour, minute |-> 0]

\* new Date(t - tzOffset * 60 * 1000).toISOString().slice(0, 16): the local
\* wall clock of t as text, seconds cut off
LocalIsoSlice16(t) == DateTimeLocal(GetDate(t), GetHours(t), GetMinutes(t))

\* The instant a datetime text denotes
InstantOf(value) == value.date * dayMs + value.hour * hourMs + value.minute * minuteMs

\* alignToQuarter: !value and !timePart return the value, a minute that is not
\* a number returns it cut to 16 characters, else the minute is
\* Math.floor(minuteNum / 15) * 15, date and hour text kept
alignToQuarter(value) ==
    IF value.kind = "empty" THEN value
    ELSE IF value.kind = "date" THEN value
    ELSE IF value.kind = "bad minute" THEN value
    ELSE [value EXCEPT !.minute = (value.minute \div 15) * 15]

\* Mutant: no increment on a quarter boundary
setDefaultReservationTime_ceil(t) ==
    LET remainder == GetMinutes(t) % 15
        increment == IF remainder = 0 THEN 0 ELSE 15 - remainder
        set == t - (t % hourMs) + (GetMinutes(t) + increment) * minuteMs
    IN alignToQuarter(LocalIsoSlice16(set))

\* setDefaultReservationTime of part_001: setMinutes(getMinutes() + increment),
\* setSeconds(0, 0), the local text, alignToQuarter
setDefaultReservationTime(t) ==
    LET remainder == GetMinutes(t) % 15
        increment == IF remainder = 0 THEN 15 ELSE 15 - remainder
        set == t - (t % hourMs) + (GetMinutes(t) + increment) * minuteMs
    IN alignToQuarter(LocalIsoSlice16(set))

\* setDefaultReservationTime of part_000: the next half hour, no alignToQuarter
setDefaultReservationTime_part000(t) ==
    LET set == t - (t % hourMs)
               + (GetMinutes(t) + 30 - (GetMinutes(t) % 30)) * minuteMs
    IN LocalIsoSlice16(set)

----------------------------------------------------------------------------
(* part_000: the earlier revision of the dashboard script *)

\* computeCardColor of part_000: a hue gradient over the next day
computeCardColor_part000(rs, t) ==
    LET activeReservations == SelectSeq(rs, IsActive)
        withDates == ActiveByStart(rs)
    IN IF Len(activeReservations) = 0 THEN null
       ELSE IF Len(withDates) = 0 THEN null
       ELSE LET next == withDates[1]
                diffMs == next.start.v - t
            IN IF diffMs > dayMs THEN TodayColor
               ELSE LET clamp == Max(0, Min(dayMs, diffMs))
                    IN [background |-> Hsl(clamp, "85%, 88%"),
                        border |-> Hsl(clamp, "65%, 52%")]

\* getNextReservation of part_000: the same text as in part_001
getNextReservation_part000(rs, t) ==
    LET active == ActiveByStart(rs)
        next == Find(active, {res \in Range(active) : Geq(res.start, Num(t))})
    IN IF Len(active) = 0 THEN null
       ELSE IF next # null THEN next ELSE active[1]

renderFloors_part000(rs, t) ==
    LET colorMeta == computeCardColor_part000(rs, t)
        upcoming == getNextReservation_part000(rs, t)
    IN [background |-> IF colorMeta # null THEN colorMeta.background ELSE Css("white"),
        borderColor |-> IF colorMeta # null THEN colorMeta.border
                        ELSE Css("var(--border-color)"),
        colorMeta |-> colorMeta,
        upcoming |-> upcoming,
        next |-> IF upcoming # null THEN "info" ELSE NoReservationText,
        overdue |-> FALSE]

\* renderReservationList of part_000: every reservation gets an item; the
\* arrive button only once the start time has come.
renderReservationList_part000(rs, t) ==
    LET Item(res) ==
            [id |-> res.id, status |-> res.status, start_time |-> res.start_time,
             overdue |-> FALSE,
             actions |-> IF res.status = "active"
                         THEN IF StartedBy(res, t) THEN <<"arrive", "cancel">>
                              ELSE <<"cancel">>
                         ELSE <<"status-chip">>]
        ordered == orderedReservations(rs)
    IN [i \in 1..Len(ordered) |-> Item(ordered[i])]

----------------------------------------------------------------------------
(* The backend behind the HTTP contract: one table (id 1) that may hold one *)
(* reservation (id 1).  Its code is not part of src/.                       *)

SeatChoices == {2, 4}

\* The start_time of the reservation: 5 minutes after the origin
ReservationStart == TimeText(5 * minuteMs)

\* The other fields of the reservation, as the backend reports them whatever
\* the request said: texts are sequences of characters, the phone is missing
StoredReservation ==
    [guest_name |-> <<"A">>, phone |-> <<>>, party_size |-> 2, notes |-> <<"n">>]

InitServer == [present |-> TRUE, seats |-> 4, res |-> "none"]

\* GET /api/tables -> { tables: Table[] }
GetTables(s) ==
    IF s.present
    THEN <<[id |-> 1, seats |-> s.seats,
            reservations |->
                IF s.res = "none" THEN <<>>
                ELSE <<[id |-> 1, status |-> s.res,
                        start_time |-> ReservationStart,
                        guest_name |-> StoredReservation.guest_name,
                        phone |-> StoredReservation.phone,
                        party_size |-> StoredReservation.party_size,
                        notes |-> StoredReservation.notes]>>]>>
    ELSE <<>>

\* The requests the backend answers with 2xx
Accepts(s, op) ==
    CASE op = "create" -> s.present /\ s.res # "active"
      [] op \in {"edit", "cancel", "arrive"} -> s.present /\ s.res = "active"
      [] op = "clear" -> TRUE
      [] op = "table_add" -> ~s.present
      [] op \in {"table_edit", "table_delete"} -> s.present

\* What an accepted request does to the stored table
Effect(s, op, arg) ==
    CASE op = "create" -> [s EXCEPT !.res = "active"]
      [] op = "edit" -> s
      [] op = "cancel" -> [s EXCEPT !.res = "cancelled"]
      [] op = "arrive" -> [s EXCEPT !.res = "arrived"]
      [] op = "clear" -> [s EXCEPT !.res = "none"]
      [] op = "table_add" -> [present |-> TRUE, seats |-> arg, res |-> "none"]
      [] op = "table_edit" -> [s EXCEPT !.seats = arg]
      [] op = "table_delete" -> [InitServer EXCEPT !.present = FALSE]

----------------------------------------------------------------------------
(* Requests in flight: fetch() calls whose promise has not been consumed *)

\* Most requests in flight at once
MaxInflight == 2

\* The fields of the reservation form, and of a request's JSON body: texts as
\* sequences of characters, party_size as its Number(), start_time as the text
\* of a datetime-local input.  form.reset() leaves every field empty.
EmptyFields ==
    [table_id |-> 0, guest_name |-> <<>>, phone |-> <<>>, party_size |-> Num(0),
     start_time |-> EmptyText, notes |-> <<>>]
NoBody == EmptyFields

Pending == [st |-> "pending", tables |-> <<>>]
Ok(tables) == [st |-> "ok", tables |-> tables]
Failed == [st |-> "fail", tables |-> <<>>]

\* fetch('/api/tables') issued by fetchTables(show): show is its showError or
\* showMessage argument; what is "fetch", or "fetch_submit" when the submit
\* handler awaits it and has work left after it
Get(what, show) ==
    [method |-> "GET", what |-> what, arg |-> 0, show |-> show, body |-> NoBody,
     resp |-> Pending]
\* fetch(url, {method: POST | PUT | DELETE})
Mut(op, arg) ==
    [method |-> "MUT", what |-> op, arg |-> arg, show |-> FALSE, body |-> NoBody,
     resp |-> Pending]

IsGet(r) == r.method = "GET"
IsMut(r) == r.method = "MUT"

Send(r) == net (+) SetToBag({r})
Take(r) == net (-) SetToBag({r})
CanSend == BagCardinality(net) < MaxInflight

\* A response ready for the client code awaiting it
Settled(r) == BagIn(r, net) /\ r.resp.st # "pending"

----------------------------------------------------------------------------
(* part_001: the dashboard's state and handlers *)

\* appState.tables.find((item) => item.id === id)
FindTable(tables, id) == Find(tables, {item \in Range(tables) : item.id = id})

\* What renderFloors leaves in floorsContainer: a card per table
floorsContainer(tables, t) ==
    [i \in 1..Len(tables) |->
        [id |-> tables[i].id, seats |-> tables[i].seats,
         card |-> renderFloors(tables[i].reservations, t, t)]]

getTotalReservations(tables) ==
    LET sum[k \in 0..Len(tables)] ==
            IF k = 0 THEN 0 ELSE sum[k - 1] + Len(tables[k].reservations)
    IN sum[Len(tables)]

InitModal ==
    [currentTableId |-> 0, mode |-> "create", reservation_id |-> 0,
     formPristine |-> TRUE, reservationList |-> <<>>,
     table_id |-> EmptyFields.table_id, guest_name |-> EmptyFields.guest_name,
     phone |-> EmptyFields.phone, party_size |-> EmptyFields.party_size,
     start_time |-> EmptyFields.start_time, notes |-> EmptyFields.notes]

\* reservationForm.reset()
FormReset(m) ==
    [m EXCEPT !.reservation_id = 0,
              !.table_id = EmptyFields.table_id,
              !.guest_name = EmptyFields.guest_name,
              !.phone = EmptyFields.phone,
              !.party_size = EmptyFields.party_size,
              !.start_time = EmptyFields.start_time,
              !.notes = EmptyFields.notes]

closeModal(m) ==
    [FormReset(m) EXCEPT !.currentTableId = 0, !.mode = "create",
                         !.reservation_id = 0, !.formPristine = TRUE]

\* Mutant: the form left in its mode
setCreateDefaults_keepMode(m, table, t) ==
    [FormReset(m) EXCEPT !.mode = m.mode, !.reservation_id = m.reservation_id,
                         !.table_id = table.id,
                         !.party_size = Num(table.seats),
                         !.start_time = setDefaultReservationTime(t),
                         !.formPristine = TRUE]

setCreateDefaults(m, table, t) ==
    [FormReset(m) EXCEPT !.mode = "create", !.reservation_id = 0,
                         !.table_id = table.id,
                         !.party_size = Num(table.seats),
                         !.start_time = setDefaultReservationTime(t),
                         !.formPristine = TRUE]

populateModal(m, table, t) ==
    LET fresh == m.mode # "edit" /\ m.formPristine
    IN [m EXCEPT !.table_id = table.id,
                 !.party_size = IF fresh THEN Num(table.seats) ELSE @,
                 !.start_time = IF fresh /\ @ = EmptyText
                                THEN setDefaultReservationTime(t) ELSE @,
                 !.reservationList = renderReservationList(table.reservations, t)]

\* Mutant: the modal left open when its table is gone
renderAll_keepOpen(tables, m, t) ==
    LET table == FindTable(tables, m.currentTableId)
    IN [floors |-> floorsContainer(tables, t),
        modal |-> IF m.currentTableId # 0 /\ table # null
                  THEN populateModal(m, table, t)
                  ELSE m]

\* renderAll: the cards, then the open modal re-populated, or closed when its
\* table is gone from the snapshot
renderAll(tables, m, t) ==
    LET table == FindTable(tables, m.currentTableId)
    IN [floors |-> floorsContainer(tables, t),
        modal |-> IF m.currentTableId # 0
                  THEN IF table # null THEN populateModal(m, table, t)
                       ELSE closeModal(m)
                  ELSE m]

\* Mutant: the response merged into the snapshot, the reservations it does not
\* list kept
fetchTablesTry_merge(data) ==
    LET Old(table) == FindTable(appState.tables, table.id)
        Kept(table) ==
            IF Old(table) = null THEN <<>>
            ELSE SelectSeq(Old(table).reservations,
                           LAMBDA res : \A k \in 1..Len(table.reservations) :
                                           table.reservations[k].id # res.id)
        merged == [i \in 1..Len(data) |->
                      [data[i] EXCEPT !.reservations = @ \o Kept(data[i])]]
        r == renderAll(merged, modal, now)
    IN /\ appState' = [tables |-> merged]
       /\ floors' = r.floors
       /\ modal' = r.modal

\* fetchTables, lines 40-43: appState.tables = data.tables || []; renderAll();
\* updateToolbarState() (the button's disabled flag is getTotalReservations = 0)
fetchTablesTry(data) ==
    LET r == renderAll(data, modal, now)
    IN /\ appState' = [tables |-> data]
       /\ floors' = r.floors
       /\ modal' = r.modal

\* Mutant: the failure path renders again
fetchTablesCatch_render ==
    LET r == renderAll(appState.tables, modal, now)
    IN /\ appState' = appState
       /\ floors' = r.floors
       /\ modal' = r.modal

\* fetchTables, lines 44-49: console.error, and alert when showError
fetchTablesCatch == UNCHANGED <<appState, floors, modal>>

Dashboard == page = "dashboard" /\ ~resume
Admin == page = "admin"

AdminUnchanged == UNCHANGED <<adminState, tableList, statusText>>
DashboardUnchanged == UNCHANGED <<appState, floors, modal, resume>>
DeriveUnchanged ==
    UNCHANGED <<reservations, card, card0, items, items0, elapsed, suggestion,
                suggestion0>>

\* The messages of the alert() dialogs
NoAlert == ""
LoadFailed == "load failed"
RequestFailed == "request failed"

\* catch (error) { console.error(error); if (showError) alert(...) }, the same
\* in admin.js with showMessage
fetchTablesAlert(g) ==
    IF g.resp.st = "fail" /\ g.show THEN LoadFailed ELSE NoAlert

\* fetchTables from the response on.  A fetch awaited by the submit handler
\* hands over to that handler's continuation, which runs in the same task.
fetchTables(g) ==
    /\ Dashboard /\ Settled(g) /\ IsGet(g)
    /\ net' = Take(g)
    /\ IF g.resp.st = "ok" THEN fetchTablesTry(g.resp.tables) ELSE fetchTablesCatch
    /\ resume' = (g.what = "fetch_submit")
    /\ UNCHANGED <<page, server, now>> /\ AdminUnchanged /\ DeriveUnchanged
    /\ alertText' = fetchTablesAlert(g)

\* setInterval(() => fetchTables(false), 60000)
startAutoRefresh ==
    /\ Dashboard /\ CanSend
    /\ net' = Send(Get("fetch", FALSE))
    /\ UNCHANGED <<page, server, now>>
    /\ DashboardUnchanged /\ AdminUnchanged /\ DeriveUnchanged
    /\ alertText' = NoAlert

\* A click on a card
openModal(tableId) ==
    /\ Dashboard
    /\ \E i \in 1..Len(floors) : floors[i].id = tableId
    /\ LET table == FindTable(appState.tables, tableId)
       IN /\ table # null
          /\ modal' = populateModal(
                 setCreateDefaults([modal EXCEPT !.currentTableId = tableId],
                                   table, now),
                 table, now)
    /\ UNCHANGED <<page, server, net, now, appState, floors, resume>>
    /\ AdminUnchanged /\ DeriveUnchanged
    /\ alertText' = NoAlert

\* The close button, the overlay or Escape
closeModalClick ==
    /\ Dashboard /\ modal.currentTableId # 0
    /\ modal' = closeModal(modal)
    /\ UNCHANGED <<page, server, net, now, appState, floors, resume>>
    /\ AdminUnchanged /\ DeriveUnchanged
    /\ alertText' = NoAlert

cancelEdit ==
    /\ Dashboard /\ modal.currentTableId # 0 /\ modal.mode = "edit"
    /\ LET table == FindTable(appState.tables, modal.currentTableId)
       IN modal' = IF table # null
                   THEN populateModal(setCreateDefaults(modal, table, now), table, now)
                   ELSE modal
    /\ UNCHANGED <<page, server, net, now, appState, floors, resume>>
    /\ AdminUnchanged /\ DeriveUnchanged
    /\ alertText' = NoAlert

\* input / change on the form: the user has entered values into some fields
\* (entered maps the names of these fields to their values)
formInput(entered) ==
    /\ Dashboard /\ modal.currentTableId # 0
    /\ modal' = [name \in DOMAIN modal |->
                    IF name \in DOMAIN entered THEN entered[name]
                    ELSE IF name = "formPristine" THEN FALSE
                    ELSE modal[name]]
    /\ UNCHANGED <<page, server, net, now, appState, floors, resume>>
    /\ AdminUnchanged /\ DeriveUnchanged
    /\ alertText' = NoAlert

\* The buttons renderReservationList gave the item
HasButton(id, button) ==
    /\ modal.currentTableId # 0
    /\ \E i \in 1..Len(modal.reservationList) :
          /\ modal.reservationList[i].id = id
          /\ \E k \in 1..Len(modal.reservationList[i].actions) :
                modal.reservationList[i].actions[k] = button

\* The text cut to 16 characters: "YYYY-MM-DDTHH:MM" of a timestamp, '' of ''
Slice16(text) == IF text.ok THEN LocalIsoSlice16(text.ms) ELSE EmptyText

\* The edit button of an item: its reservation and table are those of the
\* snapshot the list was rendered from
startEditReservation(id) ==
    /\ Dashboard /\ HasButton(id, "edit")
    /\ LET table == FindTable(appState.tables, modal.currentTableId)
           reservation ==
               Find(table.reservations,
                    {res \in Range(table.reservations) : res.id = id})
       IN modal' =
            [modal EXCEPT
               !.mode = "edit", !.formPristine = FALSE,
               !.reservation_id = reservation.id,
               !.table_id = table.id,
               !.guest_name = reservation.guest_name,
               !.phone = reservation.phone,
               !.party_size = Num(IF reservation.party_size # 0
                                  THEN reservation.party_size ELSE table.seats),
               !.notes = reservation.notes,
               !.start_time = alignToQuarter(Slice16(reservation.start_time))]
    /\ UNCHANGED <<page, server, net, now, appState, floors, resume>>
    /\ AdminUnchanged /\ DeriveUnchanged
    /\ alertText' = NoAlert

\* A handler up to its fetch: the request goes out, nothing else changes
Request(r) ==
    /\ CanSend
    /\ net' = Send(r)
    /\ UNCHANGED <<page, server, now>>
    /\ DashboardUnchanged /\ AdminUnchanged /\ DeriveUnchanged
    /\ alertText' = NoAlert

\* try { if (!response.ok) throw ...; await fetchTables(false) } catch { alert }
Refetch(m) ==
    /\ net' = IF m.resp.st = "ok" THEN Take(m) (+) SetToBag({Get("fetch", FALSE)})
              ELSE Take(m)
    /\ UNCHANGED <<page, server, now>>
    /\ DashboardUnchanged /\ AdminUnchanged /\ DeriveUnchanged
    /\ alertText' = IF m.resp.st = "ok" THEN NoAlert ELSE RequestFailed

handleArrived(id) ==
    /\ Dashboard /\ HasButton(id, "arrive")
    /\ Request(Mut("arrive", id))

handleArrived_settled(m) ==
    /\ Dashboard /\ Settled(m) /\ IsMut(m) /\ m.what = "arrive"
    /\ Refetch(m)

handleCancel(id) ==
    /\ Dashboard /\ HasButton(id, "cancel")
    /\ Request(Mut("cancel", id))

\* Mutant: the cancelled reservation also marked in the local snapshot
handleCancel_optimistic(m) ==
    /\ Dashboard /\ Settled(m) /\ IsMut(m) /\ m.what = "cancel"
    /\ net' = IF m.resp.st = "ok" THEN Take(m) (+) SetToBag({Get("fetch", FALSE)})
              ELSE Take(m)
    /\ appState' =
         [tables |->
            [i \in 1..Len(appState.tables) |->
               [appState.tables[i] EXCEPT !.reservations =
                  [k \in 1..Len(appState.tables[i].reservations) |->
                     IF m.resp.st = "ok" /\ appState.tables[i].reservations[k].id = m.arg
                     THEN [appState.tables[i].reservations[k] EXCEPT !.status = "cancelled"]
                     ELSE appState.tables[i].reservations[k]]]]]
    /\ UNCHANGED <<page, server, now, floors, modal, resume>>
    /\ AdminUnchanged /\ DeriveUnchanged
    /\ alertText' = IF m.resp.st = "ok" THEN NoAlert ELSE RequestFailed

handleCancel_settled(m) ==
    /\ Dashboard /\ Settled(m) /\ IsMut(m) /\ m.what = "cancel"
    /\ Refetch(m)

\* The clear-all button: disabled, and the handler returns, when there is no
\* reservation in the snapshot
clearReservations ==
    /\ Dashboard /\ getTotalReservations(appState.tables) # 0
    /\ Request(Mut("clear", 0))

clearReservations_settled(m) ==
    /\ Dashboard /\ Settled(m) /\ IsMut(m) /\ m.what = "clear"
    /\ Refetch(m)

\* String.prototype.trim on a sequence of characters
Trim(text) ==
    LET inked == {i \in 1..Len(text) : text[i] # " "}
        first == CHOOSE i \in inked : \A j \in inked : i <= j
        last == CHOOSE i \in inked : \A j \in inked : i >= j
    IN IF inked = {} THEN <<>> ELSE SubSeq(text, first, last)

\* Mutant: start_time sent as the form holds it
Payload_unaligned(m) ==
    [table_id |-> m.table_id, guest_name |-> Trim(m.guest_name),
     phone |-> Trim(m.phone), party_size |-> m.party_size,
     start_time |-> m.start_time, notes |-> Trim(m.notes)]

\* The JSON body: the form's entries without reservation_id, start_time through
\* alignToQuarter, party_size through Number, the texts trimmed
Payload(m) ==
    [table_id |-> m.table_id, guest_name |-> Trim(m.guest_name),
     phone |-> Trim(m.phone), party_size |-> m.party_size,
     start_time |-> alignToQuarter(m.start_time), notes |-> Trim(m.notes)]

\* PUT /api/reservations/{id} when reservation_id is set, POST
\* /api/reservations otherwise
SubmitRequest(m) ==
    IF m.reservation_id # 0
    THEN [Mut("edit", m.reservation_id) EXCEPT !.body = Payload(m)]
    ELSE [Mut("create", 0) EXCEPT !.body = Payload(m)]

SelectTime == "select a time"
InvalidPartySize == "invalid party size"

\* The alert of a submission rejected before any request, "" when it passes
SubmitRejection(m) ==
    IF m.start_time = EmptyText THEN SelectTime
    ELSE IF IsNaN(m.party_size) \/ m.party_size.v <= 0 THEN InvalidPartySize
    ELSE NoAlert

\* The form's submit up to its fetch
submitReservation ==
    /\ Dashboard /\ modal.currentTableId # 0
    /\ IF SubmitRejection(modal) # NoAlert
       THEN /\ alertText' = SubmitRejection(modal)
            /\ UNCHANGED <<page, server, net, now>>
            /\ DashboardUnchanged /\ AdminUnchanged /\ DeriveUnchanged
       ELSE Request(SubmitRequest(modal))

\* Mutant: the form put back to the defaults on failure too
submitReservation_settled_reset(m) ==
    /\ Dashboard /\ Settled(m) /\ IsMut(m) /\ m.what \in {"create", "edit"}
    /\ net' = IF m.resp.st = "ok"
              THEN Take(m) (+) SetToBag({Get("fetch_submit", FALSE)})
              ELSE Take(m)
    /\ modal' = [modal EXCEPT !.mode = "create", !.formPristine = TRUE,
                              !.reservation_id = 0]
    /\ UNCHANGED <<page, server, now, appState, floors, resume>>
    /\ AdminUnchanged /\ DeriveUnchanged
    /\ alertText' = IF m.resp.st = "ok" THEN NoAlert ELSE RequestFailed

\* Lines 624-641: on success the form goes back to create mode and
\* fetchTables(false) is awaited; on failure the alert
submitReservation_settled(m) ==
    /\ Dashboard /\ Settled(m) /\ IsMut(m) /\ m.what \in {"create", "edit"}
    /\ IF m.resp.st = "ok"
       THEN /\ net' = Take(m) (+) SetToBag({Get("fetch_submit", FALSE)})
            /\ modal' = [modal EXCEPT !.mode = "create", !.formPristine = TRUE,
                                      !.reservation_id = 0]
       ELSE /\ net' = Take(m)
            /\ modal' = modal
    /\ UNCHANGED <<page, server, now, appState, floors, resume>>
    /\ AdminUnchanged /\ DeriveUnchanged
    /\ alertText' = IF m.resp.st = "ok" THEN NoAlert ELSE RequestFailed

\* Lines 643-647: const table = appState.tables.find(...);
\* if (table) { setCreateDefaults(table); populateModal(table); }
afterFetchTables(m, tables, t) ==
    LET table == FindTable(tables, m.currentTableId)
    IN IF table # null
       THEN populateModal(setCreateDefaults(m, table, t), table, t)
       ELSE m

\* The submit handler after the awaited fetchTables returned, whatever its
\* outcome; it runs in the task that processed the fetch
submitReservation_resume ==
    /\ page = "dashboard" /\ resume
    /\ resume' = FALSE
    /\ modal' = afterFetchTables(modal, appState.tables, now)
    /\ UNCHANGED <<page, server, net, now, appState, floors>>
    /\ AdminUnchanged /\ DeriveUnchanged
    /\ alertText' = NoAlert

\* part_000, renderAll and closeModal: currentTableId after the snapshot is
\* rendered (0 for null)
renderAll_part000(tables, currentTableId) ==
    IF currentTableId # 0
    THEN IF FindTable(tables, currentTableId) # null THEN currentTableId ELSE 0
    ELSE currentTableId

----------------------------------------------------------------------------
(* admin.js: the console's state and handlers *)

\* The hint shown for an empty list
EmptyHint == [id |-> 0, seats |-> 0]

renderTableList(tables) ==
    IF Len(tables) = 0 THEN <<EmptyHint>>
    ELSE [i \in 1..Len(tables) |-> [id |-> tables[i].id, seats |-> tables[i].seats]]

\* fetchTables of admin.js from the response on
fetchTables_admin(g) ==
    /\ Admin /\ Settled(g) /\ IsGet(g)
    /\ net' = Take(g)
    /\ IF g.resp.st = "ok"
       THEN /\ adminState' = [tables |-> g.resp.tables]
            /\ tableList' = renderTableList(g.resp.tables)
            /\ statusText' = IF g.show THEN "synced" ELSE statusText
       ELSE /\ statusText' = LoadFailed
            /\ UNCHANGED <<adminState, tableList>>
    /\ UNCHANGED <<page, server, now>> /\ DashboardUnchanged /\ DeriveUnchanged
    /\ alertText' = fetchTablesAlert(g)

refreshButton ==
    /\ Admin /\ CanSend
    /\ net' = Send(Get("fetch", TRUE))
    /\ UNCHANGED <<page, server, now>>
    /\ DashboardUnchanged /\ AdminUnchanged /\ DeriveUnchanged
    /\ alertText' = NoAlert

HasRow(id) == \E i \in 1..Len(tableList) : tableList[i].id = id /\ id # 0

saveTable(id, seats) ==
    /\ Admin /\ HasRow(id)
    /\ Request(Mut("table_edit", seats))

deleteTable(id) ==
    /\ Admin /\ HasRow(id)
    /\ Request(Mut("table_delete", id))

addTable(seats) ==
    /\ Admin
    /\ Request(Mut("table_add", seats))

\* The three handlers from the response on: setStatus, then
\* await fetchTables(false); on failure setStatus(error) and the alert
adminRequest_settled(m) ==
    /\ Admin /\ Settled(m) /\ IsMut(m)
    /\ net' = IF m.resp.st = "ok" THEN Take(m) (+) SetToBag({Get("fetch", FALSE)})
              ELSE Take(m)
    /\ statusText' = IF m.resp.st = "ok" THEN m.what ELSE RequestFailed
    /\ UNCHANGED <<page, server, now, adminState, tableList>>
    /\ DashboardUnchanged /\ DeriveUnchanged
    /\ alertText' = IF m.resp.st = "ok" THEN NoAlert ELSE RequestFailed

----------------------------------------------------------------------------
(* The backend's and the environment's steps *)

ServerUnchangedClient ==
    /\ UNCHANGED <<page, now>>
    /\ DashboardUnchanged /\ AdminUnchanged /\ DeriveUnchanged
    /\ alertText' = NoAlert

Answer(r, resp) == Take(r) (+) SetToBag({[r EXCEPT !.resp = resp]})

\* The backend answers a request: a snapshot, a mutation done, or a refusal
Respond(r) ==
    /\ ~resume /\ BagIn(r, net) /\ r.resp.st = "pending"
    /\ \/ /\ IsGet(r)
          /\ net' = Answer(r, Ok(GetTables(server)))
          /\ server' = server
       \/ /\ IsMut(r) /\ Accepts(server, r.what)
          /\ net' = Answer(r, Ok(<<>>))
          /\ server' = Effect(server, r.what, r.arg)
       \/ /\ IsMut(r) /\ ~Accepts(server, r.what)
          /\ net' = Answer(r, Failed)
          /\ server' = server
    /\ ServerUnchangedClient

\* A snapshot fetch that fails: network error, non-2xx status or unparsable
\* body.  (A mutating request fails by the backend's refusal, in Respond.)
Fail(g) ==
    /\ ~resume /\ BagIn(g, net) /\ g.resp.st = "pending" /\ IsGet(g)
    /\ net' = Answer(g, Failed)
    /\ server' = server
    /\ ServerUnchangedClient

\* Time passes: the reservation's start is 5 minutes after the origin, the
\* later reading is 1 minute after the start
LaterReading == 6 * minuteMs

Tick ==
    /\ ~resume /\ page # "none" /\ now = 0
    /\ now' = LaterReading
    /\ UNCHANGED <<page, server, net>>
    /\ DashboardUnchanged /\ AdminUnchanged /\ DeriveUnchanged
    /\ alertText' = NoAlert

\* No page: the state of the client variables under SpecDerive and SpecBucket
NoClient ==
    /\ page = "none"
    /\ server = InitServer
    /\ net = EmptyBag
    /\ appState = [tables |-> <<>>]
    /\ floors = <<>>
    /\ modal = InitModal
    /\ resume = FALSE
    /\ adminState = [tables |-> <<>>]
    /\ tableList = <<>>
    /\ statusText = ""
    /\ alertText = NoAlert

ClientUnchanged ==
    /\ UNCHANGED <<page, server, net, alertText>>
    /\ DashboardUnchanged /\ AdminUnchanged

\* The page loaded: the scripts end with fetchTables() (dashboard, line 661)
\* and setStatus(hint); fetchTables(false) (console, lines 174-175)
Init ==
    /\ page \in {"dashboard", "admin"}
    /\ server = InitServer
    /\ net = SetToBag({Get("fetch", page = "dashboard")})
    /\ appState = [tables |-> <<>>]
    /\ floors = <<>>
    /\ modal = InitModal
    /\ resume = FALSE
    /\ adminState = [tables |-> <<>>]
    /\ tableList = <<>>
    /\ statusText = IF page = "admin" THEN "hint" ELSE ""
    /\ now = 0
    /\ reservations = <<>>
    /\ card = Unset
    /\ card0 = Unset
    /\ items = NoItems
    /\ items0 = NoItems
    /\ elapsed = 0
    /\ suggestion = EmptyText
    /\ suggestion0 = EmptyText
    /\ alertText = NoAlert

Next ==
    \/ \E g \in BagToSet(net) : fetchTables(g)
    \/ startAutoRefresh
    \/ \E id \in {1} : openModal(id)
    \/ closeModalClick
    \/ cancelEdit
    \/ \E id \in {1} : startEditReservation(id)
    \/ \E id \in {1} : handleArrived(id)
    \/ \E m \in BagToSet(net) : handleArrived_settled(m)
    \/ \E id \in {1} : handleCancel(id)
    \/ \E m \in BagToSet(net) : handleCancel_settled(m)
    \/ clearReservations
    \/ \E m \in BagToSet(net) : clearReservations_settled(m)
    \/ submitReservation
    \/ \E m \in BagToSet(net) : submitReservation_settled(m)
    \/ submitReservation_resume
    \/ \E g \in BagToSet(net) : fetchTables_admin(g)
    \/ refreshButton
    \/ \E id \in {1}, seats \in SeatChoices : saveTable(id, seats)
    \/ \E id \in {1} : deleteTable(id)
    \/ \E seats \in SeatChoices : addTable(seats)
    \/ \E m \in BagToSet(net) : adminRequest_settled(m)
    \/ \E r \in BagToSet(net) : Respond(r)
    \/ \E g \in BagToSet(net) : Fail(g)
    \/ Tick

Spec == Init /\ [][Next]_vars

\* The dashboard with its form in use.  What the user enters: a booking (a
\* guest name with a trailing blank, a phone, a note, a start time off the
\* quarter), the start time cleared, the party size cleared
FormEdits ==
    {[guest_name |-> <<"B", " ">>, phone |-> <<"5">>, notes |-> <<"w">>,
      start_time |-> DateTimeLocal(0, 10, 37)],
     [start_time |-> EmptyText],
     [party_size |-> Num(0)]}

\* Requests of other clients that the backend has served: the table deleted
OtherRequests == {<<"table_delete", 1>>}

otherClient(op, arg) ==
    /\ ~resume /\ Accepts(server, op)
    /\ server' = Effect(server, op, arg)
    /\ UNCHANGED net
    /\ ServerUnchangedClient

InitForm ==
    /\ page = "dashboard"
    /\ server = InitServer
    /\ net = SetToBag({Get("fetch", TRUE)})
    /\ appState = [tables |-> <<>>]
    /\ floors = <<>>
    /\ modal = InitModal
    /\ resume = FALSE
    /\ adminState = [tables |-> <<>>]
    /\ tableList = <<>>
    /\ statusText = ""
    /\ alertText = NoAlert
    /\ now = 0
    /\ reservations = <<>>
    /\ card = Unset
    /\ card0 = Unset
    /\ items = NoItems
    /\ items0 = NoItems
    /\ elapsed = 0
    /\ suggestion = EmptyText
    /\ suggestion0 = EmptyText

NextForm ==
    \/ \E g \in BagToSet(net) : fetchTables(g)
    \/ startAutoRefresh
    \/ \E id \in {1} : openModal(id)
    \/ closeModalClick
    \/ cancelEdit
    \/ \E entered \in FormEdits : formInput(entered)
    \/ \E id \in {1} : startEditReservation(id)
    \/ submitReservation
    \/ \E m \in BagToSet(net) : submitReservation_settled(m)
    \/ submitReservation_resume
    \/ \E r \in BagToSet(net) : Respond(r)
    \/ \E other \in OtherRequests : otherClient(other[1], other[2])

SpecForm == InitForm /\ [][NextForm]_vars

----------------------------------------------------------------------------
(* Inputs of the derivations *)

Statuses == {"active", "arrived", "archived", "cancelled"}

\* Longest reservation list of a table
MaxLen == 3

Minutes(n) == n * minuteMs

\* start_time texts of SpecDerive: 100 minutes before, 5 minutes and 2 days
\* after the origin, and a text Date cannot parse
StartTexts ==
    {TimeText(Minutes(-100)), TimeText(Minutes(5)), TimeText(Minutes(2880)),
     BadTimeText}

\* Clock readings of SpecDerive: the origin, 30 s after the 5-minute start
\* (the difference rounds to 0) and 1 minute after it
NowPoints == {0, Minutes(5) + 30000, Minutes(6)}

\* Clock readings of SpecBucket: the start at Minutes(5) seen from d minutes
\* before it, for the d on both sides of every threshold, and the half-minute
\* ties of Math.round
BucketMinutes == {-2, -1, 0, 1, 10, 11, 30, 31, 180, 181, 1440, 1441, 1500}
BucketNowPoints ==
    {Minutes(5) - Minutes(d) : d \in BucketMinutes}
        \cup {Minutes(5) + 30000, Minutes(5) + 30001,
              Minutes(5) - Minutes(10) - 29999, Minutes(5) - Minutes(10) - 30000}

\* Reservations of SpecBucket
BucketElements ==
    {[status |-> "active", start_time |-> TimeText(Minutes(5))],
     [status |-> "active", start_time |-> TimeText(Minutes(2880))],
     [status |-> "active", start_time |-> BadTimeText],
     [status |-> "cancelled", start_time |-> TimeText(Minutes(-100))]}

Elements == [status : Statuses, start_time : StartTexts]

\* Reservation ids are unique within a snapshot: the position gives the id
WithIds(l) ==
    [i \in 1..Len(l) |->
        [id |-> i, status |-> l[i].status, start_time |-> l[i].start_time]]

ListsOver(elems) == UNION {[1..k -> elems] : k \in 0..MaxLen}

\* Most milliseconds between two clock readings of one render pass
MaxElapsed == 1

InitInputs(elems, nows, gaps) ==
    /\ reservations \in {WithIds(l) : l \in ListsOver(elems)}
    /\ now \in nows
    /\ card = Unset
    /\ card0 = Unset
    /\ items = NoItems
    /\ items0 = NoItems
    /\ elapsed \in gaps
    /\ suggestion = EmptyText
    /\ suggestion0 = EmptyText
    /\ NoClient

\* One render pass of part_001 over the table: renderAll calls renderFloors,
\* then populateModal -> renderReservationList for the open table.
RenderPass ==
    /\ card = Unset /\ card0 = Unset
    /\ card' = renderFloors(reservations, now, now + elapsed)
    /\ items' = renderReservationList(reservations, now)
    /\ UNCHANGED <<reservations, now, card0, items0, elapsed, suggestion, suggestion0>>
    /\ ClientUnchanged

\* The same pass of part_000
RenderPass_part000 ==
    /\ card = Unset /\ card0 = Unset
    /\ card0' = renderFloors_part000(reservations, now)
    /\ items0' = renderReservationList_part000(reservations, now)
    /\ UNCHANGED <<reservations, now, card, items, elapsed, suggestion, suggestion0>>
    /\ ClientUnchanged

NextDerive == RenderPass \/ RenderPass_part000

InitDerive == InitInputs(Elements, NowPoints, {0})
InitBucket == InitInputs(BucketElements, BucketNowPoints, {0})

\* Reservations and clock readings of SpecClock: a start at Minutes(5) seen
\* from half a minute after it, where Math.round turns from -0 to -1
ClockElements ==
    {[status |-> "active", start_time |-> TimeText(Minutes(5))],
     [status |-> "active", start_time |-> TimeText(Minutes(2880))],
     [status |-> "arrived", start_time |-> TimeText(Minutes(-100))]}
ClockNowPoints ==
    {0, Minutes(5), Minutes(5) + 29999, Minutes(5) + 30000, Minutes(6)}
InitClock == InitInputs(ClockElements, ClockNowPoints, 0..MaxElapsed)

SpecDerive == InitDerive /\ [][NextDerive]_vars
SpecBucket == InitBucket /\ [][NextDerive]_vars
SpecClock == InitClock /\ [][NextDerive]_vars

\* Clock readings of SpecDefault: every minute of the hours 10 and 23 of day 0,
\* at second 0, at second 30 and 1 ms before the next minute
DefaultHours == {10, 23}
DefaultNowPoints ==
    {h * hourMs + mi * minuteMs + ms :
        h \in DefaultHours, mi \in 0..59, ms \in {0, 30000, 59999}}

InitDefault ==
    /\ now \in DefaultNowPoints
    /\ reservations = <<>>
    /\ card = Unset
    /\ card0 = Unset
    /\ items = NoItems
    /\ items0 = NoItems
    /\ elapsed = 0
    /\ suggestion = EmptyText
    /\ suggestion0 = EmptyText
    /\ NoClient

\* setDefaultReservationTime(startTimeInput) on the empty input
SuggestDefault ==
    /\ suggestion = EmptyText /\ suggestion0 = EmptyText
    /\ suggestion' = setDefaultReservationTime(now)
    /\ UNCHANGED <<reservations, now, card, card0, items, items0, elapsed, suggestion0>>
    /\ ClientUnchanged

SuggestDefault_part000 ==
    /\ suggestion = EmptyText /\ suggestion0 = EmptyText
    /\ suggestion0' = setDefaultReservationTime_part000(now)
    /\ UNCHANGED <<reservations, now, card, card0, items, items0, elapsed, suggestion>>
    /\ ClientUnchanged

NextDefault == SuggestDefault \/ SuggestDefault_part000

SpecDefault == InitDefault /\ [][NextDefault]_vars

----------------------------------------------------------------------------
(* Properties of the derivations *)

\* Positions of the active reservations whose start_time parses
ValidActive(rs) ==
    {i \in 1..Len(rs) : rs[i].status = "active" /\ rs[i].start_time.ok}

StartOf(rs, i) == rs[i].start_time.ms

\* Smallest start among the positions S (non-empty)
MinStart(rs, S) == CHOOSE m \in {StartOf(rs, i) : i \in S} :
                       \A i \in S : m <= StartOf(rs, i)

\* What the selector is to return for rs at time t, as a set of positions:
\* the valid active reservations with the smallest start >= t, or with the
\* smallest start at all when none is >= t
ExpectedNext(rs, t) ==
    LET V == ValidActive(rs)
        F == {i \in V : StartOf(rs, i) >= t}
        S == IF F # {} THEN F ELSE V
    IN {i \in S : StartOf(rs, i) = MinStart(rs, S)}

\* u is reservation number i of rs, with its Date attached
IsReservation(u, rs, i) ==
    /\ u.id = rs[i].id
    /\ u.status = rs[i].status
    /\ u.start_time = rs[i].start_time
    /\ u.start = Num(StartOf(rs, i))

SelectsExpected(u, rs, t) ==
    IF ValidActive(rs) = {} THEN u = null
    ELSE u # null /\ \E i \in ExpectedNext(rs, t) : IsReservation(u, rs, i)

\* C1: getNextReservation at time now returns, among the active reservations
\* with a parsable start_time, the one with the smallest start_time >= now, and
\* when all of them are in the past the one with the smallest start_time; so in
\* both revisions of the script.
C1_NextReservation ==
    /\ card # Unset => SelectsExpected(card.upcoming, reservations, now)
    /\ card0 # Unset => SelectsExpected(card0.upcoming, reservations, now)

\* C1 witness: two active reservations with different starts, all in the past,
\* the later one first in the list, and the earliest one returned.
C1_Witness ==
    /\ card # Unset
    /\ \E i, j \in ValidActive(reservations) :
          i < j /\ StartOf(reservations, j) < StartOf(reservations, i)
    /\ \A i \in ValidActive(reservations) : StartOf(reservations, i) < now
    /\ card.upcoming # null
    /\ card.upcoming.start.v = MinStart(reservations, ValidActive(reservations))
    /\ card.upcoming.start.v < now

\* The threshold table of the urgency buckets
BucketColor(d) ==
    IF d < 0 THEN OverdueColor
    ELSE IF 0 <= d /\ d <= 10 THEN ImminentColor
    ELSE IF 10 < d /\ d <= 30 THEN NearColor
    ELSE IF 30 < d /\ d <= 180 THEN SoonColor
    ELSE IF 180 < d /\ d <= 1440 THEN TodayColor
    ELSE null

\* Urgency of a bucket: overdue highest, neutral lowest
Urgency(c) ==
    IF c = OverdueColor THEN 5
    ELSE IF c = ImminentColor THEN 4
    ELSE IF c = NearColor THEN 3
    ELSE IF c = SoonColor THEN 2
    ELSE IF c = TodayColor THEN 1
    ELSE 0

\* Minutes from t to the earliest active reservation with a parsable start,
\* rounded (ValidActive(rs) non-empty)
EarliestDiffMinutes(rs, t) ==
    MathRoundDiv(MinStart(rs, ValidActive(rs)) - t, minuteMs)

ExpectedColor(rs, t) ==
    IF ValidActive(rs) = {} THEN null ELSE BucketColor(EarliestDiffMinutes(rs, t))

\* C2 (as amended): computeCardColor of the current dashboard script
\* (part_001) maps the rounded minutes d to the bucket of the threshold table
\* (d < 0 overdue, 0..10 imminent, 11..30 near, 31..180 soon, 181..1440 today,
\* above 1440 no colour), and the urgency of the bucket never increases as d
\* increases, i.e. as the clock reading decreases.
C2_BucketTable ==
    card # Unset =>
        /\ card.colorMeta = ExpectedColor(reservations, now)
        /\ \A earlier \in BucketNowPoints :
              earlier <= now =>
                  Urgency(computeCardColor(reservations, earlier))
                      <= Urgency(card.colorMeta)

\* C2 witness: an active reservation 1441 minutes ahead leaves the card
\* without colour, and 1440 minutes ahead it is in the today bucket.
C2_Witness ==
    /\ card # Unset
    /\ ValidActive(reservations) # {}
    /\ EarliestDiffMinutes(reservations, now) = 1441
    /\ card.colorMeta = null
    /\ computeCardColor(reservations, now + minuteMs) = TodayColor

\* C2 as stated: every computeCardColor of the repository, the one of part_000
\* included, follows the threshold table.
C2_EveryImplementation ==
    /\ card # Unset => card.colorMeta = ExpectedColor(reservations, now)
    /\ card0 # Unset => card0.colorMeta = ExpectedColor(reservations, now)

\* C3: the colour of a table with an active reservation in the past is the
\* bucket of the earliest active reservation (smallest parsable start over all
\* of them), whatever reservation getNextReservation returns.
C3_ColorFromEarliest ==
    (/\ card # Unset
     /\ \E i \in ValidActive(reservations) : StartOf(reservations, i) < now)
        => card.colorMeta = BucketColor(EarliestDiffMinutes(reservations, now))

\* C3 witness: the next reservation is in the future and would be imminent,
\* the card is coloured overdue from an earlier, past reservation.
C3_Witness ==
    /\ card # Unset
    /\ card.upcoming # null
    /\ card.upcoming.start.v >= now
    /\ BucketColor(MathRoundDiv(card.upcoming.start.v - now, minuteMs)) = ImminentColor
    /\ \E i \in ValidActive(reservations) : StartOf(reservations, i) < now
    /\ card.colorMeta = OverdueColor

\* The example table: active reservations at now+5 minutes, now-100 minutes
\* and now+2 days, in this order
IsExampleTable ==
    reservations =
        WithIds(<<[status |-> "active", start_time |-> TimeText(now + Minutes(5))],
                  [status |-> "active", start_time |-> TimeText(now - Minutes(100))],
                  [status |-> "active", start_time |-> TimeText(now + Minutes(2880))]>>)

\* C4 (as amended): for the example table getNextReservation returns the
\* now+5 minutes entry and computeCardColor returns the overdue bucket, the
\* earliest active reservation being 100 minutes in the past.
C4_Example ==
    (card # Unset /\ IsExampleTable) =>
        /\ card.upcoming # null
        /\ IsReservation(card.upcoming, reservations, 1)
        /\ card.colorMeta = OverdueColor

\* C4 witness: the example table, rendered.
C4_Witness ==
    /\ card # Unset
    /\ IsExampleTable
    /\ card.upcoming.start_time = TimeText(now + Minutes(5))

\* C4 as stated: the example table is coloured imminent.
C4_ExampleImminent ==
    (card # Unset /\ IsExampleTable) =>
        /\ card.upcoming # null
        /\ IsReservation(card.upcoming, reservations, 1)
        /\ card.colorMeta = ImminentColor

NonActive == Statuses \ {"active"}

RemoveAt(rs, i) == SubSeq(rs, 1, i - 1) \o SubSeq(rs, i + 1, Len(rs))
InsertAt(rs, k, r) == SubSeq(rs, 1, k) \o <<r>> \o SubSeq(rs, k + 1, Len(rs))

\* The lists that hold the same active reservations as rs, in the same order,
\* and differ from rs in one non-active reservation: removed, changed in
\* status or start_time, or added at any place; and rs without any of its
\* non-active reservations
Variants(rs) ==
    LET others == {i \in 1..Len(rs) : rs[i].status # "active"}
    IN {RemoveAt(rs, i) : i \in others}
       \cup {[rs EXCEPT ![i] = [id |-> rs[i].id, status |-> st, start_time |-> tt]] :
                 i \in others, st \in NonActive, tt \in StartTexts}
       \cup {InsertAt(rs, k, [id |-> Len(rs) + 1, status |-> st, start_time |-> tt]) :
                 k \in 0..Len(rs), st \in NonActive, tt \in StartTexts}
       \cup {SelectSeq(rs, LAMBDA r : r.status = "active")}

\* C5: the colour and the next reservation of a table are the same for every
\* reservation list that holds the same active reservations and differs only
\* in reservations that are arrived, archived or cancelled, at the same time.
C5_NonInterference ==
    card # Unset =>
        \A v \in Variants(reservations) :
            /\ computeCardColor(v, now) = card.colorMeta
            /\ getNextReservation(v, now) = card.upcoming

\* C5 witness: a non-active reservation starts before every active one, and
\* the next reservation is an active one.
C5_Witness ==
    /\ card # Unset
    /\ card.upcoming # null
    /\ \E i \in 1..Len(reservations) :
          /\ reservations[i].status # "active"
          /\ reservations[i].start_time.ok
          /\ reservations[i].start_time.ms < card.upcoming.start.v
          /\ i < card.upcoming.id

NoActive(rs) == \A i \in 1..Len(rs) : rs[i].status # "active"

\* C6: without an active reservation getNextReservation returns null,
\* computeCardColor returns null, and the card is neutral with the text for
\* 'no reservation'.
C6_NoneWithoutActive ==
    (card # Unset /\ NoActive(reservations)) =>
        /\ card.upcoming = null
        /\ card.colorMeta = null
        /\ card.background = Css("white")
        /\ card.borderColor = Css("var(--border-color)")
        /\ card.next = NoReservationText
        /\ ~card.overdue

\* C6 witness: a single cancelled reservation at now+5 minutes, rendered.
C6_Witness ==
    /\ card # Unset
    /\ reservations =
         WithIds(<<[status |-> "cancelled", start_time |-> TimeText(now + Minutes(5))]>>)
    /\ card.upcoming = null
    /\ card.colorMeta = null

\* Ordering of a rendered list
AscendingActive(l) ==
    \A i, j \in 1..Len(l) :
        (/\ i < j
         /\ l[i].status = "active" /\ l[j].status = "active"
         /\ l[i].start_time.ok /\ l[j].start_time.ok)
            => l[i].start_time.ms <= l[j].start_time.ms

DescendingOthers(l) ==
    \A i, j \in 1..Len(l) :
        (/\ i < j
         /\ l[i].status # "active" /\ l[j].status # "active"
         /\ l[i].start_time.ok /\ l[j].start_time.ok)
            => l[i].start_time.ms >= l[j].start_time.ms

ActiveFirst(l) ==
    \A i, j \in 1..Len(l) :
        i < j => ~(l[i].status # "active" /\ l[j].status = "active")

FromTableOnce(l, rs) ==
    /\ \A k \in 1..Len(l) :
          \E i \in 1..Len(rs) :
              /\ l[k].id = rs[i].id
              /\ l[k].status = rs[i].status
              /\ l[k].start_time = rs[i].start_time
    /\ \A k, m \in 1..Len(l) : k # m => l[k].id # l[m].id

ListOrdered(l, rs) ==
    AscendingActive(l) /\ DescendingOthers(l) /\ ActiveFirst(l) /\ FromTableOnce(l, rs)

\* C7 as stated: the rendered list holds the active reservations ascending by
\* start_time, then the non-active ones descending by start_time, no
\* non-active item before an active one, each item once and from the table;
\* so in both revisions of the script.
C7_ListOrder ==
    /\ items # NoItems =>
          /\ ListOrdered(items, reservations)
          /\ ListOrdered(orderedReservations(reservations), reservations)
    /\ items0 # NoItems => ListOrdered(items0, reservations)

\* With every start_time parsable the order of C7_ListOrder holds (the NaN of
\* an unparsable start_time is what makes the comparators inconsistent).
AllParsable(rs) == \A i \in 1..Len(rs) : rs[i].start_time.ok

ListOrderWhenParsable ==
    (items # NoItems /\ AllParsable(reservations)) =>
        /\ ListOrdered(items, reservations)
        /\ ListOrdered(orderedReservations(reservations), reservations)

\* Two items of one partition with the same start_time text
SamePartitionSameStart(a, b) ==
    /\ (a.status = "active") = (b.status = "active")
    /\ a.start_time = b.start_time

\* Ids are the positions in the snapshot: the earlier of two equal items has
\* the smaller id
KeepsSnapshotOrder(l) ==
    \A i, j \in 1..Len(l) :
        (i < j /\ SamePartitionSameStart(l[i], l[j])) => l[i].id < l[j].id

C19_OverdueClassImpliesColor ==
    card # Unset => (card.overdue => card.colorMeta = OverdueColor)

\* With Date.now() returning what computeCardColor read, the implication of
\* C19_OverdueClassImpliesColor holds.
OverdueClassAtOneInstant ==
    (card # Unset /\ elapsed = 0) => (card.overdue => card.colorMeta = OverdueColor)

\* The converse of C19 fails as the claim says: this state, a card coloured
\* overdue that shows a reservation to come and has no 'overdue' class, is
\* reached.
OverdueColorWithoutClass ==
    /\ card # Unset
    /\ card.colorMeta = OverdueColor
    /\ ~card.overdue
    /\ card.upcoming # null

\* What C13 says of a suggestion made at the instant t: the minute is a
\* multiple of 15, the time is that of the current minute plus 15 - (m mod 15)
\* minutes, so later than t and at most 15 minutes after the minute began, in
\* the next hour when m >= 45, at minute 45 when m = 37
NextQuarter(value, t) ==
    LET m == GetMinutes(t)
        minuteStart == t - (t % minuteMs)
    IN /\ value.kind = "datetime"
       /\ value.minute \in {0, 15, 30, 45}
       /\ InstantOf(value) = minuteStart + (15 - (m % 15)) * minuteMs
       /\ InstantOf(value) > t
       /\ InstantOf(value) <= minuteStart + 15 * minuteMs
       /\ m >= 45 => (value.minute = 0 /\ InstantOf(value) \div hourMs = (t \div hourMs) + 1)
       /\ m = 37 => (value.minute = 45 /\ value.hour = GetHours(t))

\* C13 for the current script: setDefaultReservationTime of part_001 suggests
\* the next quarter hour after now (15 minutes on when now is on a quarter),
\* seconds and milliseconds zero.
C13_NextQuarter ==
    suggestion # EmptyText => NextQuarter(suggestion, now)

\* C13 witness: a suggestion made in the last quarter of hour 23, which is
\* 00:00 of the next day
C13_Witness ==
    /\ suggestion # EmptyText
    /\ GetHours(now) = 23 /\ GetMinutes(now) >= 45
    /\ suggestion.date = GetDate(now) + 1

\* C13 as stated: every setDefaultReservationTime of the repository suggests
\* the next quarter hour.
C13_EveryImplementation ==
    /\ suggestion # EmptyText => NextQuarter(suggestion, now)
    /\ suggestion0 # EmptyText => NextQuarter(suggestion0, now)

----------------------------------------------------------------------------
(* Properties of the client *)

\* The step consumes the response r
Taken(r) == r.resp.st # "pending" /\ CopiesIn(r, net') < CopiesIn(r, net)

\* Number of snapshot fetches in flight
GetCount(b) == BagCardinality([r \in {x \in BagToSet(b) : IsGet(x)} |-> b[r]])

C9_LastProcessedWins ==
    [][\A g \in BagToSet(net) :
          (IsGet(g) /\ g.resp.st = "ok" /\ Taken(g)) =>
              IF page = "admin" THEN adminState' = [tables |-> g.resp.tables]
              ELSE appState' = [tables |-> g.resp.tables]]_vars

\* C9 witness: the snapshot is the backend's current state, applied from a
\* later fetch, while the successful response of an earlier fetch, taken before
\* a mutation and differing from the snapshot, is still to be processed.
C9_Witness ==
    /\ page = "dashboard"
    /\ Len(appState.tables) > 0
    /\ appState.tables = GetTables(server)
    /\ \E g \in BagToSet(net) :
          /\ IsGet(g) /\ g.resp.st = "ok"
          /\ g.resp.tables # appState.tables

\* C10: the snapshot changes only in a step that applies the successful
\* response of GET /api/tables, so no handler of a mutation and no render
\* changes it; and a step that processes the response of a mutating request
\* issues exactly one snapshot fetch when the request succeeded and none when
\* it failed.
C10_NoOptimisticMutation ==
    [][/\ (appState' # appState \/ adminState' # adminState) =>
              \E g \in BagToSet(net) : IsGet(g) /\ g.resp.st = "ok" /\ Taken(g)
       /\ \A m \in BagToSet(net) :
              (IsMut(m) /\ Taken(m)) =>
                  /\ UNCHANGED <<appState, adminState>>
                  /\ GetCount(net') =
                        GetCount(net) + (IF m.resp.st = "ok" THEN 1 ELSE 0)]_vars

\* C10 witness: the backend has stored the reservation the form created, the
\* handler has issued its re-fetch, and the snapshot still has no reservation.
C10_Witness ==
    /\ page = "dashboard"
    /\ server.res = "active"
    /\ Len(appState.tables) > 0
    /\ getTotalReservations(appState.tables) = 0
    /\ \E g \in BagToSet(net) : IsGet(g) /\ g.what = "fetch_submit"

\* What the page shows for the failed response r that the step consumes: every
\* failed mutating request raises the alert (the console also writes the
\* status line); a failed snapshot fetch writes the console's status line, and
\* raises the alert only when it was issued with showError / showMessage
\* (the fetch on load of the dashboard, the console's refresh button)
SurfacedAsCoded(r) ==
    IF IsMut(r)
    THEN /\ alertText' = RequestFailed
         /\ page = "admin" => statusText' = RequestFailed
    ELSE /\ alertText' = (IF r.show THEN LoadFailed ELSE NoAlert)
         /\ page = "admin" => statusText' = LoadFailed

\* What holds of failures: a step that consumes a failed response sends no
\* request (no retry), and surfaces the failure by the alert or the status
\* line, except that the dashboard shows nothing for a failed fetch issued
\* with showError = false (the 60 s poll, the re-fetch after a mutation).
FailuresSurfacedAsCoded ==
    [][\A r \in BagToSet(net) :
          (r.resp.st = "fail" /\ Taken(r)) =>
              /\ net' = Take(r)
              /\ SurfacedAsCoded(r)]_vars

\* The re-fetch awaited by the dashboard's submit handler has just failed (the
\* cards are not the render of this instant) and no dialog is up.
SilentRefetchFailure ==
    /\ page = "dashboard" /\ resume
    /\ Len(appState.tables) > 0
    /\ floors # floorsContainer(appState.tables, now)
    /\ alertText = NoAlert

\* C11: every step that consumes a failed response, of a snapshot
\* fetch or of a mutating request, in either page, raises the alert or writes
\* the status line, and sends no request.
C11_EveryFailureSurfaced ==
    [][\A r \in BagToSet(net) :
          (r.resp.st = "fail" /\ Taken(r)) =>
              /\ net' = Take(r)
              /\ \/ alertText' # NoAlert
                 \/ page = "admin" /\ statusText' \in {LoadFailed, RequestFailed}]_vars

----------------------------------------------------------------------------
(* Properties of the reservation form *)

\* The step sends the request r
Sent(r) == r.resp = Pending /\ CopiesIn(r, net') > CopiesIn(r, net)

\* A request of the form's submit handler
IsSubmit(r) == IsMut(r) /\ r.what \in {"create", "edit"}

\* The request as it was sent
AsSent(r) == [r EXCEPT !.resp = Pending]

\* The minute brought down to the quarter, date and hour kept
FlooredToQuarter(sent, held) ==
    /\ sent.kind = "datetime"
    /\ sent.minute = (held.minute \div 15) * 15
    /\ sent.minute \in {0, 15, 30, 45}
    /\ sent.date = held.date /\ sent.hour = held.hour
    /\ held.minute = 37 => sent.minute = 30

\* The reservation of the snapshot that the form is editing
EditedReservation(m) ==
    LET table == FindTable(appState.tables, m.currentTableId)
    IN Find(table.reservations,
            {res \in Range(table.reservations) : res.id = m.reservation_id})

\* C12: every create or edit request the form sends carries the start_time the
\* form held with its minute brought down to floor(minute / 15) * 15, one of
\* 00, 15, 30, 45, date and hour unchanged (10:37 is sent as 10:30); and a
\* step that puts the form into edit mode loads the reservation's start_time
\* brought down the same way.
C12_SubmittedStartAligned ==
    [][/\ \A r \in BagToSet(net') :
              (Sent(r) /\ IsSubmit(r)) =>
                  FlooredToQuarter(r.body.start_time, modal.start_time)
       /\ (modal.mode # "edit" /\ modal'.mode = "edit") =>
              FlooredToQuarter(modal'.start_time,
                               Slice16(EditedReservation(modal').start_time))]_vars

\* C12 witness: a request in flight carries 10:30 while the form holds 10:37
C12_Witness ==
    /\ modal.start_time = DateTimeLocal(0, 10, 37)
    /\ \E r \in BagToSet(net) :
          IsSubmit(r) /\ r.body.start_time = DateTimeLocal(0, 10, 30)

\* The handlers after which C15 wants the form in create mode
BackToCreate ==
    \/ \E m \in BagToSet(net) : IsSubmit(m) /\ m.resp.st = "ok" /\ Taken(m)
    \/ submitReservation_resume
    \/ cancelEdit
    \/ closeModalClick
    \/ \E id \in {1} : openModal(id)

\* C15: reservation_id is set exactly when the form's mode is 'edit'; the form
\* sends PUT /api/reservations/{reservation_id} exactly when reservation_id is
\* set and POST /api/reservations otherwise; and after a successful
\* submission, cancel-edit, closing the modal and opening a table the form is
\* in mode 'create' with reservation_id empty.
C15_EditModeHasId ==
    /\ [](modal.reservation_id # 0 <=> modal.mode = "edit")
    /\ [][/\ \A r \in BagToSet(net') :
                (Sent(r) /\ IsSubmit(r)) =>
                    IF modal.reservation_id # 0
                    THEN r.what = "edit" /\ r.arg = modal.reservation_id
                    ELSE r.what = "create" /\ r.arg = 0
         /\ BackToCreate =>
                (modal'.mode = "create" /\ modal'.reservation_id = 0)]_vars

\* C15 witness: an edit was sent as PUT for reservation 1, and the form, still
\* open, is back in create mode with reservation_id empty
C15_Witness ==
    /\ modal.currentTableId # 0
    /\ modal.mode = "create" /\ modal.reservation_id = 0
    /\ \E r \in BagToSet(net) : IsSubmit(r) /\ r.what = "edit" /\ r.arg = 1

\* The form: mode, reservation_id and the five fields
FormOf(m) ==
    [mode |-> m.mode, reservation_id |-> m.reservation_id,
     guest_name |-> m.guest_name, phone |-> m.phone, party_size |-> m.party_size,
     start_time |-> m.start_time, notes |-> m.notes]

\* The step applies the snapshot of the response g while the modal is open on
\* a table that the snapshot still has
AppliesToOpenTable(g) ==
    /\ IsGet(g) /\ g.resp.st = "ok" /\ Taken(g)
    /\ modal.currentTableId # 0
    /\ FindTable(g.resp.tables, modal.currentTableId) # null

Touched(m) == m.mode = "edit" \/ ~m.formPristine

\* The modal when the task that processes the response g has ended: the
\* submit handler that awaited g continues in the same task
AtEndOfTask(g) ==
    IF g.what = "fetch_submit"
    THEN afterFetchTables(modal', appState'.tables, now')
    ELSE modal'

\* What fetchTables itself does to the form when it applies a snapshot: a
\* form in edit mode or touched keeps mode, reservation_id and the five
\* fields; an untouched create-mode form gets party_size set to the table's
\* seats and an empty start_time filled with the default, nothing else.
FetchTablesKeepsForm ==
    [][\A g \in BagToSet(net) :
          AppliesToOpenTable(g) =>
              LET table == FindTable(g.resp.tables, modal.currentTableId)
              IN IF Touched(modal)
                 THEN FormOf(modal') = FormOf(modal)
                 ELSE FormOf(modal') =
                        [FormOf(modal) EXCEPT
                           !.party_size = Num(table.seats),
                           !.start_time =
                              IF @ = EmptyText
                              THEN setDefaultReservationTime(now) ELSE @]]_vars

\* C16: when a snapshot in which the open table still exists has been applied,
\* whichever fetch brought it (the poll or any re-fetch), a form that was in
\* edit mode or touched has its mode, reservation_id, guest_name, phone,
\* party_size, start_time and notes as before.
C16_SnapshotKeepsTouchedForm ==
    [][\A g \in BagToSet(net) :
          (AppliesToOpenTable(g) /\ Touched(modal)) =>
              FormOf(AtEndOfTask(g)) = FormOf(modal)]_vars

\* The modal is closed, or open on a table of the snapshot
OpenOnKnownTable ==
    \/ modal.currentTableId = 0
    \/ FindTable(appState.tables, modal.currentTableId) # null

\* C17: currentTableId is null or the id of a table in the snapshot; and a
\* step that applies a snapshot without the open table closes the modal:
\* currentTableId null, the form in create mode, pristine, reservation_id and
\* the fields empty (in part_000: currentTableId null).
C17_OpenTableInSnapshot ==
    /\ []OpenOnKnownTable
    /\ [][\A g \in BagToSet(net) :
            (/\ IsGet(g) /\ g.resp.st = "ok" /\ Taken(g)
             /\ modal.currentTableId # 0
             /\ FindTable(g.resp.tables, modal.currentTableId) = null) =>
                /\ modal'.currentTableId = 0
                /\ modal'.mode = "create" /\ modal'.formPristine
                /\ modal'.reservation_id = 0
                /\ FormOf(modal') = FormOf(InitModal)
                /\ renderAll_part000(g.resp.tables, modal.currentTableId) = 0]_vars

\* C17 witness: the snapshot has no table, the modal is closed, and the list
\* it showed when it was open had an item
C17_Witness ==
    /\ page = "dashboard"
    /\ appState.tables = <<>> /\ floors = <<>>
    /\ modal.currentTableId = 0
    /\ modal.reservationList # <<>>

\* C18: a step that processes the failed response of a submission leaves the
\* form, currentTableId, the snapshot and the cards as they were and sends
\* nothing, so that, the form being as it was when the request was sent, a new
\* submit sends the same request; and a submission that is rejected for an
\* empty start_time or a party_size that is not a number above 0 sends nothing
\* and changes nothing (it raises the alert).
C18_FailedSubmitKeepsForm ==
    [][/\ \A m \in BagToSet(net) :
              (IsSubmit(m) /\ m.resp.st = "fail" /\ Taken(m)) =>
                  /\ UNCHANGED <<modal, appState, floors, resume>>
                  /\ net' = Take(m)
                  /\ SubmitRequest(modal) = AsSent(m) =>
                         (/\ SubmitRejection(modal') = NoAlert
                          /\ SubmitRequest(modal') = AsSent(m))
       /\ (submitReservation /\ SubmitRejection(modal) # NoAlert) =>
              (/\ UNCHANGED <<modal, appState, floors, resume, net, server>>
               /\ alertText' # NoAlert)
       /\ \A r \in BagToSet(net') :
              (Sent(r) /\ IsSubmit(r)) =>
                  (/\ r.body.start_time # EmptyText
                   /\ ~IsNaN(r.body.party_size) /\ r.body.party_size.v > 0)]_vars

\* C18 witness: the submission of the booking the user entered has just
\* failed, and the form still holds the booking
C18_Witness ==
    /\ page = "dashboard" /\ alertText = RequestFailed
    /\ modal.currentTableId # 0
    /\ modal.guest_name = <<"B", " ">>
    /\ modal.start_time = DateTimeLocal(0, 10, 37)

============================================================================
